---- MODULE Spec2Model ----
(***************************************************************************)
(* Model of the electricity bill splitter: the tiered energy cost          *)
(* evaluator (calculateEnergyCost), the bill allocation engine             *)
(* (calculateBillBreakdown) and the application state that feeds them.     *)
(*                                                                         *)
(* JavaScript numbers are modelled as exact rationals <<n, d>> in lowest   *)
(* terms with d > 0: the properties below are the ones the program has in  *)
(* real-number arithmetic, floating-point rounding aside.                  *)
(***************************************************************************)
EXTENDS Integers, Sequences, FiniteSets, TLC

VARIABLES
    config,             \* BillConfig: the two flags the engine reads
    mainMeter,          \* MeterReading of the main meter
    meters,             \* MeterReading[] of the sub-meters
    tariffConfig,       \* TariffConfig
    calculationResult,  \* BillCalculationResult, the useMemo of App.tsx:291
    calculated,         \* TRUE once calculationResult holds a returned value
    units,              \* evaluator: the argument `units`
    slabs,              \* evaluator: the argument `slabs`
    energyCost,         \* evaluator: the value returned
    evaluated,          \* evaluator: TRUE once energyCost holds a returned value
    history,            \* SavedBill[], the state `history` of App.tsx:125
    localStorage,       \* the five keys the application writes
    now,                \* the last value read from the clock (Date.now)
    ops,                \* number of handlers run so far
    lastOp,             \* the handler that ran last, with the answer to its confirm
    isSyncing,          \* the state `isSyncing` of App.tsx:127
    calls               \* the pushCloudData and pullCloudData calls that are in flight

billVars == <<config, mainMeter, meters, tariffConfig, calculationResult, calculated>>
evalVars == <<units, slabs, energyCost, evaluated>>
appVars == <<history, localStorage, now, ops, lastOp, isSyncing, calls>>
vars == <<config, mainMeter, meters, tariffConfig, calculationResult, calculated,
          units, slabs, energyCost, evaluated, history, localStorage, now, ops, lastOp,
          isSyncing, calls>>

----------------------------------------------------------------------------
(* Bounds of the model *)

MaxSlabs == 3      \* slabs in a slab list handed to the evaluator
MaxLimit == 2      \* largest slab limit
MaxUnits == 3      \* largest consumption handed to the evaluator
MaxMeters == 2     \* sub-meters
MaxReading == 2    \* largest current reading of a sub-meter
MaxOps == 3        \* handlers run in one session of the application

----------------------------------------------------------------------------
(* Numbers: exact rationals *)

Abs(x) == IF x < 0 THEN -x ELSE x

RECURSIVE GCD(_, _)
GCD(a, b) == IF b = 0 THEN a ELSE GCD(b, a % b)

\* n/d in lowest terms. A zero denominator is what JavaScript makes of a division by
\* zero: <<1, 0>> and <<-1, 0>> are Infinity and -Infinity, <<0, 0>> is NaN.
Rat(n, d) ==
    IF d = 0 THEN <<IF n > 0 THEN 1 ELSE IF n < 0 THEN -1 ELSE 0, 0>>
    ELSE LET s == IF d < 0 THEN -1 ELSE 1
             g == GCD(Abs(n), Abs(d))
         IN  <<(s * n) \div g, (s * d) \div g>>

IsFinite(x) == x[2] > 0

IntR(n) == <<n, 1>>
Zero == <<0, 1>>

RAdd(a, b) == Rat(a[1] * b[2] + b[1] * a[2], a[2] * b[2])
RSub(a, b) == Rat(a[1] * b[2] - b[1] * a[2], a[2] * b[2])
RMul(a, b) == Rat(a[1] * b[1], a[2] * b[2])
RDiv(a, b) == Rat(a[1] * b[2], a[2] * b[1])
RLt(a, b) == a[1] * b[2] < b[1] * a[2]
RLe(a, b) == a[1] * b[2] <= b[1] * a[2]
RGt(a, b) == RLt(b, a)
RMin(a, b) == IF RLt(b, a) THEN b ELSE a
RMax(a, b) == IF RLt(a, b) THEN b ELSE a

----------------------------------------------------------------------------
(* calculateEnergyCost, App.tsx:29-51 *)

\* A plausible slip: the tier width taken as the slab's limit (previousLimit forgotten).
RECURSIVE SlabLoopAbsoluteLimit(_, _, _, _, _)
SlabLoopAbsoluteLimit(ss, i, remainingUnits, cost, previousLimit) ==
    IF i > Len(ss)
    THEN [remainingUnits |-> remainingUnits, energyCost |-> cost]
    ELSE LET slab == ss[i]
             slabSize == slab.limit
             unitsInSlab == RMin(remainingUnits, slabSize)
             billed == RGt(unitsInSlab, Zero)
             cost1 == IF billed THEN RAdd(cost, RMul(unitsInSlab, slab.rate)) ELSE cost
             rem1 == IF billed THEN RSub(remainingUnits, unitsInSlab) ELSE remainingUnits
         IN  IF RLe(rem1, Zero)
             THEN [remainingUnits |-> rem1, energyCost |-> cost1]
             ELSE SlabLoopAbsoluteLimit(ss, i + 1, rem1, cost1, slab.limit)

\* A plausible slip: the tier width counted one unit short (limit - previousLimit - 1,
\* as for inclusive ranges), so consumption on a boundary spills into the next tier.
RECURSIVE SlabLoopShortTier(_, _, _, _, _)
SlabLoopShortTier(ss, i, remainingUnits, cost, previousLimit) ==
    IF i > Len(ss)
    THEN [remainingUnits |-> remainingUnits, energyCost |-> cost]
    ELSE LET slab == ss[i]
             slabSize == RSub(RSub(slab.limit, previousLimit), IntR(1))
             unitsInSlab == RMin(remainingUnits, slabSize)
             billed == RGt(unitsInSlab, Zero)
             cost1 == IF billed THEN RAdd(cost, RMul(unitsInSlab, slab.rate)) ELSE cost
             rem1 == IF billed THEN RSub(remainingUnits, unitsInSlab) ELSE remainingUnits
         IN  IF RLe(rem1, Zero)
             THEN [remainingUnits |-> rem1, energyCost |-> cost1]
             ELSE SlabLoopShortTier(ss, i + 1, rem1, cost1, slab.limit)

\* The for-loop of lines 34-44 from slab i on; returns the loop's locals at exit.
RECURSIVE SlabLoop(_, _, _, _, _)
SlabLoop(ss, i, remainingUnits, cost, previousLimit) ==
    IF i > Len(ss)
    THEN [remainingUnits |-> remainingUnits, energyCost |-> cost]
    ELSE LET slab == ss[i]
             slabSize == RSub(slab.limit, previousLimit)
             unitsInSlab == RMin(remainingUnits, slabSize)
             billed == RGt(unitsInSlab, Zero)
             cost1 == IF billed THEN RAdd(cost, RMul(unitsInSlab, slab.rate)) ELSE cost
             rem1 == IF billed THEN RSub(remainingUnits, unitsInSlab) ELSE remainingUnits
         IN  IF RLe(rem1, Zero)
             THEN [remainingUnits |-> rem1, energyCost |-> cost1]
             ELSE SlabLoop(ss, i + 1, rem1, cost1, slab.limit)

\* A plausible slip: the test unitsInSlab > 0 of line 38 left out, so that a slab whose
\* limit lies below the previous one is billed a negative quantity.
RECURSIVE SlabUnitsNoPositiveCheck(_, _, _, _)
SlabUnitsNoPositiveCheck(ss, i, remainingUnits, previousLimit) ==
    IF i > Len(ss) THEN <<>>
    ELSE LET slabSize == RSub(ss[i].limit, previousLimit)
             unitsInSlab == RMin(remainingUnits, slabSize)
             rem1 == RSub(remainingUnits, unitsInSlab)
         IN  IF RLe(rem1, Zero) THEN <<unitsInSlab>>
             ELSE <<unitsInSlab>> \o SlabUnitsNoPositiveCheck(ss, i + 1, rem1, ss[i].limit)

\* lines 35-45: the quantity billed in each slab the loop visits from slab i on, 0 for
\* a slab it visits without billing
RECURSIVE SlabUnits(_, _, _, _)
SlabUnits(ss, i, remainingUnits, previousLimit) ==
    IF i > Len(ss) THEN <<>>
    ELSE LET slabSize == RSub(ss[i].limit, previousLimit)
             unitsInSlab == RMin(remainingUnits, slabSize)
             billed == RGt(unitsInSlab, Zero)
             q == IF billed THEN unitsInSlab ELSE Zero
             rem1 == RSub(remainingUnits, q)
         IN  IF RLe(rem1, Zero) THEN <<q>>
             ELSE <<q>> \o SlabUnits(ss, i + 1, rem1, ss[i].limit)

\* line 47: the quantity billed at the last slab's rate
OverflowUnits(u, ss) ==
    LET after == SlabLoop(ss, 1, u, Zero, Zero)
    IN  IF RGt(after.remainingUnits, Zero) /\ Len(ss) > 0 THEN after.remainingUnits ELSE Zero

\* A plausible slip: the remainder after the last slab is dropped.
calculateEnergyCostNoOverflow(u, ss) == SlabLoop(ss, 1, u, Zero, Zero).energyCost

\* A plausible slip: the remaining units are billed at the last rate with the wrong sign.
calculateEnergyCostRefund(u, ss) ==
    LET after == SlabLoop(ss, 1, u, Zero, Zero)
    IN  IF RGt(after.remainingUnits, Zero) /\ Len(ss) > 0
        THEN RSub(after.energyCost, RMul(after.remainingUnits, ss[Len(ss)].rate))
        ELSE after.energyCost

\* A plausible slip: with no slab to take a rate from, the units are billed at rate 1.
calculateEnergyCostDefaultRate(u, ss) ==
    LET after == SlabLoop(ss, 1, u, Zero, Zero)
    IN  IF RGt(after.remainingUnits, Zero)
        THEN RAdd(after.energyCost,
                  RMul(after.remainingUnits, IF Len(ss) > 0 THEN ss[Len(ss)].rate ELSE IntR(1)))
        ELSE after.energyCost

calculateEnergyCost(u, ss) ==
    LET after == SlabLoop(ss, 1, u, Zero, Zero)
    IN  IF RGt(after.remainingUnits, Zero) /\ Len(ss) > 0
        THEN RAdd(after.energyCost, RMul(after.remainingUnits, ss[Len(ss)].rate))
        ELSE after.energyCost

----------------------------------------------------------------------------
(* calculateBillBreakdown, App.tsx:53-113 *)

\* line 63: Math.max(0, mainMeter.current - mainMeter.previous)
mainUnits(mm) == RMax(Zero, RSub(mm.current, mm.previous))

\* A plausible slip: the late fee charged whether or not the flag is set.
lateFeeAlways(cfg, vatTotal) == vatTotal

\* line 68
lateFee(cfg, vatTotal) == IF cfg.includeLateFee THEN vatTotal ELSE Zero

\* A plausible slip: the bKash charge added whether or not the flag is set.
bkashAlways(cfg, tc) == tc.bkashCharge

\* line 69
bkash(cfg, tc) == IF cfg.includeBkashFee THEN tc.bkashCharge ELSE Zero

\* line 71
totalBillCalculated(taxableBase, vatTotal, late, bk) ==
    RAdd(RAdd(RAdd(taxableBase, vatTotal), late), bk)

\* A plausible slip: the deltas summed as they are, a meter running backwards included.
RECURSIVE totalSubmeterUnitsRaw(_)
totalSubmeterUnitsRaw(ms) ==
    IF ms = <<>> THEN Zero
    ELSE LET m == ms[Len(ms)]
         IN  RAdd(totalSubmeterUnitsRaw(SubSeq(ms, 1, Len(ms) - 1)),
                  RSub(m.current, m.previous))

\* lines 75-79: the forEach that accumulates totalSubmeterUnits
RECURSIVE totalSubmeterUnits(_)
totalSubmeterUnits(ms) ==
    IF ms = <<>> THEN Zero
    ELSE LET m == ms[Len(ms)]
             u == RSub(m.current, m.previous)
         IN  RAdd(totalSubmeterUnits(SubSeq(ms, 1, Len(ms) - 1)),
                  IF RGt(u, Zero) THEN u ELSE Zero)

\* A plausible slip: the bKash fee left out of the pool the users share.
fixedSharedPoolNoBkash(fixedBase, vatFixed, bk, late) ==
    RAdd(RAdd(fixedBase, vatFixed), late)

\* line 81
fixedSharedPool(fixedBase, vatFixed, bk, late) ==
    RAdd(RAdd(RAdd(fixedBase, vatFixed), bk), late)

\* A plausible slip: the main meter counted among those who share the fixed cost.
fixedCostPerUserCountingMain(pool, n) == IF n > 0 THEN RDiv(pool, IntR(n + 1)) ELSE Zero

\* line 82
fixedCostPerUser(pool, n) == IF n > 0 THEN RDiv(pool, IntR(n)) ELSE Zero

\* A plausible slip: the VAT on energy left out of the pool the rate is derived from.
energySharedPoolNoVat(energyCostBase, vatDistributed) == energyCostBase

\* line 84
energySharedPool(energyCostBase, vatDistributed) == RAdd(energyCostBase, vatDistributed)

\* A plausible slip: the zero total avoided by dividing by at least one unit.
calculatedRateDivByAtLeastOne(pool, total) == RDiv(pool, RMax(total, IntR(1)))

\* A plausible slip: the guard total > 0 left out, so that the pool is divided by zero.
calculatedRateUnguarded(pool, total) == RDiv(pool, total)

\* line 85
calculatedRate(pool, total) == IF RGt(total, Zero) THEN RDiv(pool, total) ELSE Zero

\* A plausible slip: the row's units taken without the clamp at zero.
userCalculationUnclamped(m, rate, fixedCost) ==
    LET u == RSub(m.current, m.previous)
        userEnergyCost == RMul(u, rate)
    IN  [id |-> m.id, name |-> m.name, unitsUsed |-> u,
         energyCost |-> userEnergyCost, fixedCost |-> fixedCost,
         totalPayable |-> RAdd(userEnergyCost, fixedCost),
         previous |-> m.previous, current |-> m.current]

\* A plausible slip: the bill of a user taken as the energy part alone.
userCalculationEnergyOnly(m, rate, fixedCost) ==
    LET u == RMax(Zero, RSub(m.current, m.previous))
        userEnergyCost == RMul(u, rate)
    IN  [id |-> m.id, name |-> m.name, unitsUsed |-> u,
         energyCost |-> userEnergyCost, fixedCost |-> fixedCost,
         totalPayable |-> userEnergyCost,
         previous |-> m.previous, current |-> m.current]

\* lines 87-101: one row of meters.map
userCalculation(m, rate, fixedCost) ==
    LET u == RMax(Zero, RSub(m.current, m.previous))
        userEnergyCost == RMul(u, rate)
    IN  [id |-> m.id, name |-> m.name, unitsUsed |-> u,
         energyCost |-> userEnergyCost, fixedCost |-> fixedCost,
         totalPayable |-> RAdd(userEnergyCost, fixedCost),
         previous |-> m.previous, current |-> m.current]

RECURSIVE SumSeq(_)
SumSeq(q) == IF q = <<>> THEN Zero ELSE RAdd(SumSeq(SubSeq(q, 1, Len(q) - 1)), q[Len(q)])

\* A plausible slip: the total taken as the sum of the users' bills instead of line 71.
calculateBillBreakdownTotalFromRows(cfg, mm, ms, tc) ==
    LET energyCostBase == calculateEnergyCost(mainUnits(mm), tc.slabs)
        fixedBase == RAdd(tc.demandCharge, tc.meterRent)
        taxableBase == RAdd(energyCostBase, fixedBase)
        vatTotal == RMul(taxableBase, tc.vatRate)
        late == lateFee(cfg, vatTotal)
        bk == bkash(cfg, tc)
        vatFixed == RMul(fixedBase, tc.vatRate)
        vatDistributed == RSub(vatTotal, vatFixed)
        total == totalSubmeterUnits(ms)
        perUser == fixedCostPerUser(fixedSharedPool(fixedBase, vatFixed, bk, late), Len(ms))
        rate == calculatedRate(energySharedPool(energyCostBase, vatDistributed), total)
        rows == [i \in 1..Len(ms) |-> userCalculation(ms[i], rate, perUser)]
    IN  [vatFixed |-> vatFixed,
         vatDistributed |-> vatDistributed,
         vatTotal |-> vatTotal,
         lateFee |-> late,
         calculatedRate |-> rate,
         totalUnits |-> total,
         userCalculations |-> rows,
         totalCollection |-> SumSeq([i \in 1..Len(rows) |-> rows[i].totalPayable])]

\* A plausible slip: the whole VAT, the part on the fixed charges included, put into the
\* pool the rate is derived from.
calculateBillBreakdownVatTotalInRate(cfg, mm, ms, tc) ==
    LET energyCostBase == calculateEnergyCost(mainUnits(mm), tc.slabs)
        fixedBase == RAdd(tc.demandCharge, tc.meterRent)
        taxableBase == RAdd(energyCostBase, fixedBase)
        vatTotal == RMul(taxableBase, tc.vatRate)
        late == lateFee(cfg, vatTotal)
        bk == bkash(cfg, tc)
        vatFixed == RMul(fixedBase, tc.vatRate)
        vatDistributed == RSub(vatTotal, vatFixed)
        total == totalSubmeterUnits(ms)
        perUser == fixedCostPerUser(fixedSharedPool(fixedBase, vatFixed, bk, late), Len(ms))
        rate == calculatedRate(energySharedPool(energyCostBase, vatTotal), total)
    IN  [vatFixed |-> vatFixed,
         vatDistributed |-> vatDistributed,
         vatTotal |-> vatTotal,
         lateFee |-> late,
         calculatedRate |-> rate,
         totalUnits |-> total,
         userCalculations |-> [i \in 1..Len(ms) |-> userCalculation(ms[i], rate, perUser)],
         totalCollection |-> totalBillCalculated(taxableBase, vatTotal, late, bk)]

\* A plausible slip: the operands of the subtraction of line 73 swapped.
calculateBillBreakdownVatOperandsSwapped(cfg, mm, ms, tc) ==
    LET energyCostBase == calculateEnergyCost(mainUnits(mm), tc.slabs)
        fixedBase == RAdd(tc.demandCharge, tc.meterRent)
        taxableBase == RAdd(energyCostBase, fixedBase)
        vatTotal == RMul(taxableBase, tc.vatRate)
        late == lateFee(cfg, vatTotal)
        bk == bkash(cfg, tc)
        vatFixed == RMul(fixedBase, tc.vatRate)
        vatDistributed == RSub(vatFixed, vatTotal)
        total == totalSubmeterUnits(ms)
        perUser == fixedCostPerUser(fixedSharedPool(fixedBase, vatFixed, bk, late), Len(ms))
        rate == calculatedRate(energySharedPool(energyCostBase, vatDistributed), total)
    IN  [vatFixed |-> vatFixed,
         vatDistributed |-> vatDistributed,
         vatTotal |-> vatTotal,
         lateFee |-> late,
         calculatedRate |-> rate,
         totalUnits |-> total,
         userCalculations |-> [i \in 1..Len(ms) |-> userCalculation(ms[i], rate, perUser)],
         totalCollection |-> totalBillCalculated(taxableBase, vatTotal, late, bk)]

calculateBillBreakdown(cfg, mm, ms, tc) ==
    LET VAT_RATE == tc.vatRate
        DEMAND_CHARGE == tc.demandCharge
        METER_RENT == tc.meterRent
        energyCostBase == calculateEnergyCost(mainUnits(mm), tc.slabs)
        fixedBase == RAdd(DEMAND_CHARGE, METER_RENT)
        taxableBase == RAdd(energyCostBase, fixedBase)
        vatTotal == RMul(taxableBase, VAT_RATE)
        late == lateFee(cfg, vatTotal)
        bk == bkash(cfg, tc)
        vatFixed == RMul(fixedBase, VAT_RATE)
        vatDistributed == RSub(vatTotal, vatFixed)
        total == totalSubmeterUnits(ms)
        perUser == fixedCostPerUser(fixedSharedPool(fixedBase, vatFixed, bk, late), Len(ms))
        rate == calculatedRate(energySharedPool(energyCostBase, vatDistributed), total)
    IN  [vatFixed |-> vatFixed,
         vatDistributed |-> vatDistributed,
         vatTotal |-> vatTotal,
         lateFee |-> late,
         calculatedRate |-> rate,
         totalUnits |-> total,
         userCalculations |-> [i \in 1..Len(ms) |-> userCalculation(ms[i], rate, perUser)],
         totalCollection |-> totalBillCalculated(taxableBase, vatTotal, late, bk)]

----------------------------------------------------------------------------
(* Presentation: the rounding of the Dashboard rows and the chart data of
   TrendsDashboard, which repeats the engine's computation for every saved bill *)

\* A plausible slip: the displayed amount cut off instead of rounded.
MathRoundDown(x) == x[1] \div x[2]

\* Math.round: the nearest integer, a half rounded up
MathRound(x) == (2 * x[1] + x[2]) \div (2 * x[2])

RECURSIVE SumInts(_)
SumInts(q) == IF q = <<>> THEN 0 ELSE SumInts(SubSeq(q, 1, Len(q) - 1)) + q[Len(q)]

\* TrendsDashboard.tsx:19-29, its own copy of the for-loop over the slabs
RECURSIVE TrendsSlabLoop(_, _, _, _, _)
TrendsSlabLoop(ss, i, remainingUnits, cost, previousLimit) ==
    IF i > Len(ss)
    THEN [remainingUnits |-> remainingUnits, energyCost |-> cost]
    ELSE LET slabSize == RSub(ss[i].limit, previousLimit)
             unitsInSlab == RMin(remainingUnits, slabSize)
             billed == RGt(unitsInSlab, Zero)
             cost1 == IF billed THEN RAdd(cost, RMul(unitsInSlab, ss[i].rate)) ELSE cost
             rem1 == IF billed THEN RSub(remainingUnits, unitsInSlab) ELSE remainingUnits
         IN  IF RLe(rem1, Zero)
             THEN [remainingUnits |-> rem1, energyCost |-> cost1]
             ELSE TrendsSlabLoop(ss, i + 1, rem1, cost1, ss[i].limit)

\* A plausible slip: the copy without the charge for units beyond the last slab.
trendsCalculateEnergyCostNoOverflow(u, ss) == TrendsSlabLoop(ss, 1, u, Zero, Zero).energyCost

\* TrendsDashboard.tsx:14-36
trendsCalculateEnergyCost(u, ss) ==
    LET after == TrendsSlabLoop(ss, 1, u, Zero, Zero)
    IN  IF RGt(after.remainingUnits, Zero) /\ Len(ss) > 0
        THEN RAdd(after.energyCost, RMul(after.remainingUnits, ss[Len(ss)].rate))
        ELSE after.energyCost

\* TrendsDashboard.tsx:57-90: the numbers computed for one bill, sub-meter by sub-meter
trendsMonth(bill, tc) ==
    LET mu == RMax(Zero, RSub(bill.mainMeter.current, bill.mainMeter.previous))
        energyCostBase == trendsCalculateEnergyCost(mu, tc.slabs)
        fixedBase == RAdd(tc.demandCharge, tc.meterRent)
        taxableBase == RAdd(energyCostBase, fixedBase)
        vatTotal == RMul(taxableBase, tc.vatRate)
        late == IF bill.config.includeLateFee THEN vatTotal ELSE Zero
        bk == IF bill.config.includeBkashFee THEN tc.bkashCharge ELSE Zero
        vatFixed == RMul(fixedBase, tc.vatRate)
        vatDistributed == RSub(vatTotal, vatFixed)
        ms == bill.meters
        delta == [i \in 1..Len(ms) |-> RSub(ms[i].current, ms[i].previous)]
        total == SumSeq([i \in 1..Len(ms) |-> IF RGt(delta[i], Zero) THEN delta[i] ELSE Zero])
        pool == RAdd(RAdd(RAdd(fixedBase, vatFixed), bk), late)
        perUser == IF Len(ms) > 0 THEN RDiv(pool, IntR(Len(ms))) ELSE Zero
        energyPool == RAdd(energyCostBase, vatDistributed)
        rate == IF RGt(total, Zero) THEN RDiv(energyPool, total) ELSE Zero
        u == [i \in 1..Len(ms) |-> RMax(Zero, delta[i])]
        roundedTotal == [i \in 1..Len(ms) |-> MathRound(RAdd(RMul(u[i], rate), perUser))]
    IN  [units |-> u, roundedTotal |-> roundedTotal, monthSum |-> SumInts(roundedTotal)]

\* the key under which a data point holds the cost of the sub-meter with this name
CostKey(name) == name \o "_cost"

\* TrendsDashboard.tsx:79-88: the assignments dataPoint[m.name] = units and
\* dataPoint[`${m.name}_cost`] = roundedTotal, sub-meter after sub-meter; a key that is
\* assigned again keeps the later value
RECURSIVE assignMeters(_, _, _, _)
assignMeters(dataPoint, ms, month, i) ==
    IF i > Len(ms) THEN dataPoint
    ELSE assignMeters((CostKey(ms[i].name) :> month.roundedTotal[i])
                         @@ (ms[i].name :> month.units[i]) @@ dataPoint,
                      ms, month, i + 1)

\* TrendsDashboard.tsx:48-93: the data point of one bill (name and fullMonth hold the
\* month's index)
chartDataPoint(bill, tc) ==
    LET month == trendsMonth(bill, tc)
        dataPoint == [name |-> bill.config.month, fullMonth |-> bill.config.month,
                      amount |-> bill.config.totalBillPayable,
                      date |-> bill.config.dateGenerated, monthTotal |-> 0]
    IN  ("monthTotal" :> month.monthSum) @@ assignMeters(dataPoint, bill.meters, month, 1)

----------------------------------------------------------------------------
(* Inputs *)

Limits == {IntR(k) : k \in 0..MaxLimit}
Rates == {IntR(-1), IntR(2), Rat(5, 2)}
Slabs == [limit : Limits, rate : Rates]
SlabLists == UNION {[1..n -> Slabs] : n \in 0..MaxSlabs}
UnitValues == {IntR(k) : k \in 0..MaxUnits}

Previous == {Zero, IntR(1)}
Current == {IntR(k) : k \in 0..MaxReading}
MainCurrent == {Zero, IntR(1), IntR(2)}
MainMeters == [id : {"main"}, name : {"Main Meter"}, previous : Previous, current : MainCurrent]
Configs == [includeLateFee : BOOLEAN, includeBkashFee : BOOLEAN]
TariffSlabLists ==
    { <<>>,
      <<[limit |-> IntR(1), rate |-> IntR(2)]>>,
      <<[limit |-> IntR(1), rate |-> IntR(2)], [limit |-> IntR(2), rate |-> IntR(3)]>> }
\* a tariff under which electricity costs nothing: no slab, no charge, no VAT
FreeTariff ==
    [slabs |-> <<>>, vatRate |-> Zero, demandCharge |-> Zero, meterRent |-> Zero,
     bkashCharge |-> Zero]
\* a tariff the engine accepts although no settings screen should produce it:
\* slabs out of order, a negative rate, a negative charge
MalformedTariff ==
    [slabs |-> <<[limit |-> IntR(2), rate |-> Rat(5, 2)], [limit |-> IntR(1), rate |-> IntR(-1)]>>,
     vatRate |-> Rat(1, 4), demandCharge |-> IntR(-5), meterRent |-> Zero,
     bkashCharge |-> IntR(3)]
Tariffs ==
    [slabs : TariffSlabLists, vatRate : {Zero, Rat(1, 20)}, demandCharge : {IntR(42)},
     meterRent : {IntR(10)}, bkashCharge : {IntR(10)}]
    \cup {MalformedTariff, FreeTariff}

\* sub-meter lists: the n-th meter has id n, any readings
RECURSIVE MeterListsOfLen(_)
MeterListsOfLen(n) ==
    IF n = 0 THEN {<<>>}
    ELSE {Append(ms, [id |-> n, name |-> "New User", previous |-> p, current |-> c]) :
            ms \in MeterListsOfLen(n - 1), p \in Previous, c \in Current}
MeterLists == UNION {MeterListsOfLen(n) : n \in 0..MaxMeters}

\* the worked example: three slabs, 5% VAT, the main meter and two equal sub-meters
ExampleTariff ==
    [slabs |-> <<[limit |-> IntR(50), rate |-> IntR(4)],
                 [limit |-> IntR(100), rate |-> IntR(5)],
                 [limit |-> IntR(99999), rate |-> IntR(6)]>>,
     vatRate |-> Rat(5, 100), demandCharge |-> IntR(100), meterRent |-> IntR(50),
     bkashCharge |-> IntR(10)]
ExampleConfig == [includeLateFee |-> FALSE, includeBkashFee |-> TRUE]
ExampleMainMeter ==
    [id |-> "main", name |-> "Main Meter", previous |-> Zero, current |-> IntR(120)]
ExampleMeters ==
    [i \in 1..2 |-> [id |-> i, name |-> "New User", previous |-> Zero, current |-> IntR(60)]]

\* a key of localStorage that was never written (getItem returns null)
NoItem == [present |-> FALSE, value |-> <<>>]
\* what setItem(key, JSON.stringify(v)) leaves under the key: v's data
Item(v) == [present |-> TRUE, value |-> v]
NoStorage ==
    [tmss_bill_history |-> NoItem, tmss_tariff_config |-> NoItem,
     tmss_draft_config |-> NoItem, tmss_draft_main_meter |-> NoItem,
     tmss_draft_meters |-> NoItem]
\* the clock's value when the application starts; the ids of the meters that exist
\* then are smaller
Epoch == 10

NoResult ==
    [vatFixed |-> Zero, vatDistributed |-> Zero, vatTotal |-> Zero, lateFee |-> Zero,
     calculatedRate |-> Zero, totalUnits |-> Zero, userCalculations |-> <<>>,
     totalCollection |-> Zero]

----------------------------------------------------------------------------
(* The bill allocation engine applied to one snapshot of its four inputs *)

Init ==
    /\ \/ /\ config \in Configs
          /\ mainMeter \in MainMeters
          /\ meters \in MeterLists
          /\ tariffConfig \in Tariffs
       \/ /\ config = ExampleConfig
          /\ mainMeter = ExampleMainMeter
          /\ meters = ExampleMeters
          /\ tariffConfig = ExampleTariff
    /\ calculationResult = NoResult
    /\ calculated = FALSE
    /\ units = Zero /\ slabs = <<>> /\ energyCost = Zero /\ evaluated = FALSE
    /\ history = <<>> /\ localStorage = NoStorage /\ now = Epoch /\ ops = 0
    /\ lastOp = "mount"
    /\ isSyncing = FALSE /\ calls = {}

\* A plausible slip: the engine writes the clamped readings back into the list it was
\* given.
CalculateClampingInPlace ==
    /\ ~calculated
    /\ calculationResult' = calculateBillBreakdown(config, mainMeter, meters, tariffConfig)
    /\ calculated' = TRUE
    /\ meters' = [i \in 1..Len(meters) |->
                    [meters[i] EXCEPT !.previous = RMin(meters[i].previous, meters[i].current)]]
    /\ UNCHANGED <<config, mainMeter, tariffConfig>>
    /\ UNCHANGED evalVars
    /\ UNCHANGED appVars

\* App.tsx:291
Calculate ==
    /\ ~calculated
    /\ calculationResult' = calculateBillBreakdown(config, mainMeter, meters, tariffConfig)
    /\ calculated' = TRUE
    /\ UNCHANGED <<config, mainMeter, meters, tariffConfig>>
    /\ UNCHANGED evalVars
    /\ UNCHANGED appVars

Next == Calculate

Spec == Init /\ [][Next]_vars

----------------------------------------------------------------------------
(* Properties of the bill allocation engine, checked under Spec *)

Rows == calculationResult.userCalculations
SumOfTotalPayable == SumSeq([i \in 1..Len(Rows) |-> Rows[i].totalPayable])
SumOfEnergyCost == SumSeq([i \in 1..Len(Rows) |-> Rows[i].energyCost])
SumOfFixedCost == SumSeq([i \in 1..Len(Rows) |-> Rows[i].fixedCost])

\* the quantities of steps 1-7 of the allocation, from the inputs of the state
MainUnitsOfState == RMax(Zero, RSub(mainMeter.current, mainMeter.previous))
EnergyCostBaseOfState == calculateEnergyCost(MainUnitsOfState, tariffConfig.slabs)
TaxableBaseOfState ==
    RAdd(EnergyCostBaseOfState, RAdd(tariffConfig.demandCharge, tariffConfig.meterRent))
BkashFeeOfState == IF config.includeBkashFee THEN tariffConfig.bkashCharge ELSE Zero

\* C1: with at least one sub-meter and totalSubmeterUnits > 0 the users' totalPayable
\* sum to totalCollection, for every tariff, flag combination and main-meter reading.
C1_Reconciliation ==
    (calculated /\ Len(meters) > 0 /\ RGt(calculationResult.totalUnits, Zero))
        => SumOfTotalPayable = calculationResult.totalCollection

\* two users with different positive consumption that does not add up to the main
\* meter's, both fees on, VAT not zero
C1_Witness ==
    /\ calculated
    /\ Len(meters) = 2
    /\ RGt(Rows[1].unitsUsed, Zero) /\ RGt(Rows[2].unitsUsed, Rows[1].unitsUsed)
    /\ calculationResult.totalUnits # MainUnitsOfState
    /\ config.includeLateFee /\ config.includeBkashFee
    /\ RGt(calculationResult.vatTotal, Zero)
    /\ RGt(calculationResult.vatDistributed, Zero)
    /\ SumOfTotalPayable = calculationResult.totalCollection

\* C2: totalCollection = taxableBase + vatTotal + lateFee + bkashFee, with taxableBase
\* the main meter's energy cost plus demand charge and meter rent, vatTotal =
\* taxableBase * vatRate, and bkashFee the tariff's charge or 0 by the flag.
C2_TotalCollection ==
    calculated =>
        /\ calculationResult.vatTotal = RMul(TaxableBaseOfState, tariffConfig.vatRate)
        /\ calculationResult.totalCollection =
              RAdd(RAdd(RAdd(TaxableBaseOfState, calculationResult.vatTotal),
                        calculationResult.lateFee), BkashFeeOfState)

\* a bill without the bKash fee on a tariff that has one, the main meter having
\* consumed energy that costs something
C2_Witness ==
    /\ calculated
    /\ ~config.includeBkashFee
    /\ RGt(tariffConfig.bkashCharge, Zero)
    /\ RGt(EnergyCostBaseOfState, Zero)
    /\ RGt(calculationResult.vatTotal, Zero)
    /\ calculationResult.totalCollection =
          RAdd(RAdd(TaxableBaseOfState, calculationResult.vatTotal), calculationResult.lateFee)

\* C3: the totals do not depend on the sub-meters: whatever the sub-meter list, the
\* call returns the totalCollection, vatTotal, vatFixed, vatDistributed and lateFee
\* that the same config, main meter and tariff return with no sub-meter at all, so
\* any two sub-meter lists give the same five values.
C3_IndependentOfSubMeters ==
    calculated =>
        LET alone == calculateBillBreakdown(config, mainMeter, <<>>, tariffConfig)
        IN  /\ calculationResult.totalCollection = alone.totalCollection
            /\ calculationResult.vatTotal = alone.vatTotal
            /\ calculationResult.vatFixed = alone.vatFixed
            /\ calculationResult.vatDistributed = alone.vatDistributed
            /\ calculationResult.lateFee = alone.lateFee

\* a bill for two sub-meters with consumption, and a total that is not zero
C3_Witness ==
    /\ calculated
    /\ Len(meters) = 2
    /\ RGt(Rows[1].unitsUsed, Zero) /\ RGt(Rows[2].unitsUsed, Zero)
    /\ RGt(calculationResult.totalCollection, Zero)
    /\ calculationResult.totalCollection =
          calculateBillBreakdown(config, mainMeter, <<>>, tariffConfig).totalCollection

\* C4: whenever totalSubmeterUnits > 0 the users' energy costs sum to
\* energyCostBase + vatDistributed, also when the sub-meters sum to less or to more
\* than the main meter.
C4_EnergyPool ==
    (calculated /\ RGt(calculationResult.totalUnits, Zero))
        => SumOfEnergyCost = RAdd(EnergyCostBaseOfState, calculationResult.vatDistributed)

\* the sub-meters sum to less than the main meter, one of them running backwards
C4_Witness ==
    /\ calculated
    /\ RGt(calculationResult.totalUnits, Zero)
    /\ RLt(calculationResult.totalUnits, MainUnitsOfState)
    /\ \E i \in 1..Len(meters) : RLt(meters[i].current, meters[i].previous)
    /\ RGt(calculationResult.vatDistributed, Zero)

\* the sub-meters sum to more than the main meter
C4_WitnessMore ==
    /\ calculated
    /\ RGt(MainUnitsOfState, Zero)
    /\ RGt(calculationResult.totalUnits, MainUnitsOfState)
    /\ RGt(EnergyCostBaseOfState, Zero)

\* C5: with n >= 1 sub-meters every user's fixedCost is
\* (demandCharge + meterRent + vatFixed + bkashFee + lateFee) / n whatever the user
\* consumed, so the fixed costs sum to the fixed shared pool.
FixedPoolOfState ==
    RAdd(RAdd(RAdd(RAdd(tariffConfig.demandCharge, tariffConfig.meterRent),
                   calculationResult.vatFixed), BkashFeeOfState), calculationResult.lateFee)

C5_FixedCostEven ==
    (calculated /\ Len(meters) >= 1) =>
        /\ \A i \in 1..Len(Rows) : Rows[i].fixedCost = RDiv(FixedPoolOfState, IntR(Len(meters)))
        /\ SumOfFixedCost = FixedPoolOfState
        /\ calculationResult.vatFixed =
              RMul(RAdd(tariffConfig.demandCharge, tariffConfig.meterRent), tariffConfig.vatRate)

\* two users, one with no consumption and one with some, both fees on
C5_Witness ==
    /\ calculated
    /\ Len(meters) = 2
    /\ Rows[1].unitsUsed = Zero /\ RGt(Rows[2].unitsUsed, Zero)
    /\ config.includeLateFee /\ config.includeBkashFee
    /\ RGt(calculationResult.lateFee, Zero)
    /\ Rows[1].fixedCost = Rows[2].fixedCost
    /\ RGt(Rows[1].fixedCost, Zero)

\* C6: lateFee is vatTotal (the taxable base times the VAT rate) when
\* config.includeLateFee is true and 0 when it is false.
C6_LateFee ==
    calculated =>
        /\ config.includeLateFee =>
              /\ calculationResult.lateFee = calculationResult.vatTotal
              /\ calculationResult.lateFee = RMul(TaxableBaseOfState, tariffConfig.vatRate)
        /\ ~config.includeLateFee => calculationResult.lateFee = Zero

\* a bill with the late fee on and one with it off, VAT not zero
C6_Witness ==
    calculated /\ config.includeLateFee /\ RGt(calculationResult.lateFee, Zero)

C6_WitnessOff ==
    calculated /\ ~config.includeLateFee /\ RGt(calculationResult.vatTotal, Zero)
        /\ calculationResult.lateFee = Zero

----------------------------------------------------------------------------
(* The tiered energy cost evaluator applied to a slab list, call after call *)

InitEnergy ==
    /\ slabs \in SlabLists
    /\ units \in UnitValues
    /\ energyCost = Zero
    /\ evaluated = FALSE
    /\ config = [includeLateFee |-> FALSE, includeBkashFee |-> FALSE]
    /\ mainMeter = [id |-> "main", name |-> "Main Meter", previous |-> Zero, current |-> Zero]
    /\ meters = <<>>
    /\ tariffConfig = [slabs |-> <<>>, vatRate |-> Zero, demandCharge |-> Zero,
                       meterRent |-> Zero, bkashCharge |-> Zero]
    /\ calculationResult = NoResult
    /\ calculated = FALSE
    /\ history = <<>> /\ localStorage = NoStorage /\ now = Epoch /\ ops = 0
    /\ lastOp = "mount"
    /\ isSyncing = FALSE /\ calls = {}

\* a call calculateEnergyCost(u, slabs), App.tsx:29-51
Evaluate(u) ==
    /\ units' = u
    /\ energyCost' = calculateEnergyCost(u, slabs)
    /\ evaluated' = TRUE
    /\ UNCHANGED slabs
    /\ UNCHANGED billVars
    /\ UNCHANGED appVars

NextEnergy == \E u \in UnitValues : Evaluate(u)

SpecEnergy == InitEnergy /\ [][NextEnergy]_vars

----------------------------------------------------------------------------
(* Properties of the evaluator, checked under SpecEnergy *)

Ascending(ss) == \A i \in 1..(Len(ss) - 1) : RLe(ss[i].limit, ss[i + 1].limit)
NonNegativeRates(ss) == \A i \in 1..Len(ss) : RLe(Zero, ss[i].rate)

\* sum over slabs 1..i of rate * max(0, min(u, limit) - previous slab's limit)
RECURSIVE TierSum(_, _, _)
TierSum(u, ss, i) ==
    IF i = 0 THEN Zero
    ELSE LET lower == IF i = 1 THEN Zero ELSE ss[i - 1].limit
         IN  RAdd(TierSum(u, ss, i - 1),
                  RMul(ss[i].rate, RMax(Zero, RSub(RMin(u, ss[i].limit), lower))))

TieredReference(u, ss) ==
    IF ss = <<>> THEN Zero
    ELSE RAdd(TierSum(u, ss, Len(ss)),
              RMul(ss[Len(ss)].rate, RMax(Zero, RSub(u, ss[Len(ss)].limit))))

\* C7: for slabs in ascending-limit order and units >= 0 the value returned is the
\* tiered reference cost: each tier's width at the tier's rate, and what lies beyond
\* the last limit at the last rate.
C7_TieredReference ==
    (evaluated /\ Ascending(slabs)) => energyCost = TieredReference(units, slabs)

\* a call on two tiers of different rates and strictly rising limits, with
\* consumption beyond the last limit
C7_Witness ==
    /\ evaluated
    /\ Len(slabs) = 2
    /\ RLt(Zero, slabs[1].limit) /\ RLt(slabs[1].limit, slabs[2].limit)
    /\ slabs[1].rate # slabs[2].rate
    /\ RGt(units, slabs[2].limit)
    /\ energyCost = TieredReference(units, slabs)

\* what the slabs absorb when every tier of positive width is filled, and its cost
RECURSIVE SlabCapacity(_, _)
SlabCapacity(ss, i) ==
    IF i = 0 THEN Zero
    ELSE LET lower == IF i = 1 THEN Zero ELSE ss[i - 1].limit
         IN  RAdd(SlabCapacity(ss, i - 1), RMax(Zero, RSub(ss[i].limit, lower)))

RECURSIVE FullSlabsCost(_, _)
FullSlabsCost(ss, i) ==
    IF i = 0 THEN Zero
    ELSE LET lower == IF i = 1 THEN Zero ELSE ss[i - 1].limit
         IN  RAdd(FullSlabsCost(ss, i - 1),
                  RMul(ss[i].rate, RMax(Zero, RSub(ss[i].limit, lower))))

\* C8: when units remain after every slab has been walked and the list is not empty,
\* the whole remainder is billed at the last slab's rate; 150 units on the single
\* slab {limit 100, rate 5} cost 750.
C8_OverflowAtLastRate ==
    /\ (evaluated /\ Len(slabs) > 0 /\ RGt(units, SlabCapacity(slabs, Len(slabs))))
          => energyCost = RAdd(FullSlabsCost(slabs, Len(slabs)),
                               RMul(RSub(units, SlabCapacity(slabs, Len(slabs))),
                                    slabs[Len(slabs)].rate))
    /\ calculateEnergyCost(IntR(150), <<[limit |-> IntR(100), rate |-> IntR(5)]>>) = IntR(750)

\* a call whose consumption exceeds what two slabs absorb, the last rate not zero
C8_Witness ==
    /\ evaluated
    /\ Len(slabs) = 2
    /\ RGt(SlabCapacity(slabs, 2), Zero)
    /\ RGt(units, SlabCapacity(slabs, 2))
    /\ slabs[2].rate # Zero
    /\ slabs[1].rate # slabs[2].rate

\* C9: consumption exactly on the first slab's limit is billed at the first slab's
\* rate alone: nothing at the second tier's rate, nothing at the overflow rate.
C9_BoundaryExact ==
    (evaluated /\ Len(slabs) > 0 /\ units = slabs[1].limit)
        => energyCost = RMul(slabs[1].limit, slabs[1].rate)

\* a call on the first boundary of a list whose second slab has another rate
C9_Witness ==
    /\ evaluated
    /\ Len(slabs) = 2
    /\ units = slabs[1].limit
    /\ RGt(units, Zero)
    /\ slabs[2].rate # slabs[1].rate
    /\ energyCost = RMul(slabs[1].limit, slabs[1].rate)

\* C10 as stated: for every slab list, a call with more units never returns less.
C10_MonotoneAnySlabs ==
    [][(evaluated /\ evaluated' /\ RLe(units, units')) => RLe(energyCost, energyCost')]_vars

\* C10 as amended: for every slab list whose rates are all non-negative, a call with
\* more units never returns less.
C10_MonotoneNonNegativeRates ==
    [][(evaluated /\ evaluated' /\ NonNegativeRates(slabs) /\ RLe(units, units'))
          => RLe(energyCost, energyCost')]_vars

\* a call on two slabs of positive rates that costs something
C10_Witness ==
    /\ evaluated
    /\ Len(slabs) = 2
    /\ NonNegativeRates(slabs)
    /\ RGt(units, Zero)
    /\ RGt(energyCost, Zero)

\* C11: with an empty slab list the evaluator returns 0 whatever the units, as an
\* ordinary returned number.
C11_EmptySlabsCostZero ==
    (evaluated /\ slabs = <<>>) => (energyCost = Zero /\ IsFinite(energyCost))

\* a call with units on the empty slab list
C11_Witness ==
    evaluated /\ slabs = <<>> /\ RGt(units, Zero) /\ energyCost = Zero

----------------------------------------------------------------------------
(* Properties of the engine on degenerate inputs *)

ClampedDelta(m) == RMax(Zero, RSub(m.current, m.previous))
Backwards(m) == RLt(m.current, m.previous)

\* C12: a meter whose current reading is below its previous one counts as 0 units:
\* a main meter is billed the energy cost of 0 units, a sub-meter gets a row with
\* unitsUsed = 0 and energyCost = 0 and adds 0 to totalUnits, and no unitsUsed and no
\* total is ever negative.
C12_BackwardsMeterCountsZero ==
    calculated =>
        /\ Backwards(mainMeter) =>
              /\ MainUnitsOfState = Zero
              /\ calculationResult.vatTotal =
                    RMul(RAdd(calculateEnergyCost(Zero, tariffConfig.slabs),
                              RAdd(tariffConfig.demandCharge, tariffConfig.meterRent)),
                         tariffConfig.vatRate)
              /\ calculationResult.vatDistributed = Zero
        /\ \A i \in 1..Len(meters) :
              /\ RLe(Zero, Rows[i].unitsUsed)
              /\ Backwards(meters[i]) =>
                    (Rows[i].unitsUsed = Zero /\ Rows[i].energyCost = Zero)
        /\ calculationResult.totalUnits =
              SumSeq([i \in 1..Len(meters) |-> ClampedDelta(meters[i])])
        /\ RLe(Zero, calculationResult.totalUnits)

\* one sub-meter runs backwards next to one that consumed, under a non-zero rate
C12_Witness ==
    /\ calculated
    /\ ~Backwards(mainMeter)
    /\ calculationResult.calculatedRate # Zero
    /\ \E i, j \in 1..Len(meters) :
          /\ Backwards(meters[i]) /\ Rows[i].energyCost = Zero
          /\ RGt(Rows[j].unitsUsed, Zero)

\* the main meter runs backwards
C12_WitnessMain ==
    calculated /\ Backwards(mainMeter) /\ tariffConfig.slabs # <<>>

PayingTariff(tc) ==
    /\ Len(tc.slabs) > 0
    /\ \A i \in 1..Len(tc.slabs) : RGt(tc.slabs[i].rate, Zero)
    /\ RLe(Zero, tc.vatRate) /\ RLe(Zero, tc.demandCharge)
    /\ RLe(Zero, tc.meterRent) /\ RLe(Zero, tc.bkashCharge)

\* C13 as stated: with no sub-meter, totalCollection is nonzero whenever the main meter
\* consumed.
C13_NonzeroWheneverMainUnits ==
    (calculated /\ meters = <<>> /\ RGt(MainUnitsOfState, Zero)) =>
        calculationResult.totalCollection # Zero

\* C13: with no sub-meter the result has totalUnits = 0, no rows and calculatedRate = 0;
\* totalCollection is the main meter's bill all the same, and it is nonzero when the main
\* meter consumed under a tariff with at least one slab, positive rates and non-negative
\* VAT rate and charges.
C13_NoSubMeters ==
    (calculated /\ meters = <<>>) =>
        /\ calculationResult.totalUnits = Zero
        /\ calculationResult.userCalculations = <<>>
        /\ calculationResult.calculatedRate = Zero
        /\ calculationResult.totalCollection =
              RAdd(RAdd(RAdd(TaxableBaseOfState,
                             RMul(TaxableBaseOfState, tariffConfig.vatRate)),
                        calculationResult.lateFee), BkashFeeOfState)
        /\ (RGt(MainUnitsOfState, Zero) /\ PayingTariff(tariffConfig)) =>
              RGt(calculationResult.totalCollection, Zero)

\* no sub-meter, the main meter consumed under a paying tariff
C13_Witness ==
    /\ calculated /\ meters = <<>>
    /\ RGt(MainUnitsOfState, Zero) /\ PayingTariff(tariffConfig)
    /\ RGt(calculationResult.totalCollection, Zero)

\* C14: sub-meters that consumed nothing in total get calculatedRate = 0, energyCost = 0
\* each, and each pays an even share fixedSharedPool / n.
C14_NoConsumptionEvenSplit ==
    (calculated /\ Len(meters) >= 1 /\ calculationResult.totalUnits = Zero) =>
        /\ calculationResult.calculatedRate = Zero
        /\ \A i \in 1..Len(Rows) :
              /\ Rows[i].energyCost = Zero
              /\ Rows[i].totalPayable = RDiv(FixedPoolOfState, IntR(Len(meters)))

\* two idle sub-meters while the main meter consumed, so that there is a pool to drop
C14_Witness ==
    /\ calculated /\ Len(meters) = 2 /\ calculationResult.totalUnits = Zero
    /\ RGt(EnergyCostBaseOfState, Zero)
    /\ Rows[1].totalPayable = RDiv(FixedPoolOfState, IntR(2))
    /\ Rows[1].totalPayable # Zero

FiniteResult(r) ==
    /\ IsFinite(r.vatFixed) /\ IsFinite(r.vatDistributed) /\ IsFinite(r.vatTotal)
    /\ IsFinite(r.lateFee) /\ IsFinite(r.calculatedRate) /\ IsFinite(r.totalUnits)
    /\ IsFinite(r.totalCollection)
    /\ \A i \in 1..Len(r.userCalculations) :
          /\ IsFinite(r.userCalculations[i].unitsUsed)
          /\ IsFinite(r.userCalculations[i].energyCost)
          /\ IsFinite(r.userCalculations[i].fixedCost)
          /\ IsFinite(r.userCalculations[i].totalPayable)

\* C15: whatever the input (no slab, no sub-meter, no consumption, readings running
\* backwards, negative tariff values) the engine returns a result record with one row per
\* sub-meter, and no number in it comes from a division by zero.
C15_ResultAlwaysReturned ==
    calculated =>
        /\ Len(calculationResult.userCalculations) = Len(meters)
        /\ FiniteResult(calculationResult)
        /\ IsFinite(calculateEnergyCost(MainUnitsOfState, tariffConfig.slabs))

\* idle and backwards sub-meters under the malformed tariff: the rate's divisor is zero
C15_Witness ==
    /\ calculated /\ tariffConfig = MalformedTariff
    /\ Len(meters) = 2 /\ Backwards(meters[1])
    /\ calculationResult.totalUnits = Zero
    /\ Backwards(mainMeter)

\* no sub-meter and no slab: both divisors are zero
C15_WitnessEmpty ==
    calculated /\ meters = <<>> /\ tariffConfig.slabs = <<>> /\ RGt(MainUnitsOfState, Zero)

\* C16: the step that computes the result leaves config, mainMeter, the sub-meter list
\* (its readings and its order) and the tariff with its slabs as they were.
C16_InputsUnchanged ==
    [][(~calculated /\ calculated') =>
          /\ config' = config
          /\ mainMeter' = mainMeter
          /\ meters' = meters
          /\ tariffConfig' = tariffConfig]_vars

\* a result computed from two sub-meters, one of them running backwards
C16_Witness ==
    /\ calculated /\ Len(meters) = 2
    /\ Backwards(meters[2]) /\ ~Backwards(meters[1])
    /\ Len(Rows) = 2 /\ Rows[2].unitsUsed = Zero
    /\ Len(tariffConfig.slabs) = 2

ExampleInputs ==
    /\ config = ExampleConfig /\ mainMeter = ExampleMainMeter
    /\ meters = ExampleMeters /\ tariffConfig = ExampleTariff

\* C17: the worked example (main meter 0 -> 120, two sub-meters 0 -> 60, bKash fee on,
\* late fee off) gives totalCollection 766, vatTotal 36, vatFixed 7.5, vatDistributed
\* 28.5, totalUnits 120, calculatedRate 4.9875 and totalPayable 383 for each user.
C17_WorkedExample ==
    (calculated /\ ExampleInputs) =>
        /\ calculationResult.totalCollection = IntR(766)
        /\ calculationResult.vatTotal = IntR(36)
        /\ calculationResult.vatFixed = Rat(75, 10)
        /\ calculationResult.vatDistributed = Rat(285, 10)
        /\ calculationResult.totalUnits = IntR(120)
        /\ calculationResult.calculatedRate = Rat(49875, 10000)
        /\ Len(Rows) = 2
        /\ \A i \in 1..Len(Rows) : Rows[i].totalPayable = IntR(383)

C17_Witness ==
    calculated /\ ExampleInputs /\ calculationResult.totalCollection = IntR(766)

----------------------------------------------------------------------------
(* The application: the state of AppContent and the handlers that change it.

   Every handler is one step, since React renders between two events: a handler sees
   the state its predecessor left.  calculationResult is a useMemo over all four
   arguments of the engine (App.tsx:291), so a handler that reads it reads
   calculateBillBreakdown of the state it runs in.  The view on screen (currentView) is
   left out: every view can be opened at any time, so it forbids no order of handlers.
   Dates are day numbers (ISO dates compare as their days do), months are indices into
   monthNames (-1 for a name that is not in the list), and the ids and savedAt stamps
   taken from the clock are the clock's values. *)

Undefined == <<>>
Dates == {1, 2}
EditValues == {IntR(1), IntR(3)}
TwoSlabTariff ==
    [slabs |-> <<[limit |-> IntR(1), rate |-> IntR(2)], [limit |-> IntR(2), rate |-> IntR(3)]>>,
     vatRate |-> Rat(1, 20), demandCharge |-> IntR(42), meterRent |-> IntR(10),
     bkashCharge |-> IntR(10)]
OneSlabTariff ==
    [slabs |-> <<[limit |-> IntR(1), rate |-> IntR(2)]>>,
     vatRate |-> Zero, demandCharge |-> IntR(42), meterRent |-> IntR(10),
     bkashCharge |-> IntR(5)]
AppTariffs == {TwoSlabTariff, OneSlabTariff}
AppConfigs ==
    [month : {11}, dateGenerated : {1}, includeLateFee : BOOLEAN,
     includeBkashFee : BOOLEAN, totalBillPayable : {Zero}, bkashFee : {Undefined}]
DraftMainMeter ==
    [id |-> "main", name |-> "Main Meter", previous |-> Zero, current |-> IntR(2)]
DraftMeters ==
    <<[id |-> 1, name |-> "New User", meterNo |-> 1, previous |-> Zero, current |-> IntR(1)],
      [id |-> 2, name |-> "New User", meterNo |-> 2, previous |-> IntR(1), current |-> IntR(2)]>>

\* A plausible slip: the comparison without the tie-break on savedAt.
SortsBeforeByDateOnly(a, b) == a.config.dateGenerated > b.config.dateGenerated

\* lines 20-27: a.config.dateGenerated later than b's, or the same date and a saved later
SortsBefore(a, b) ==
    IF a.config.dateGenerated # b.config.dateGenerated
    THEN a.config.dateGenerated > b.config.dateGenerated
    ELSE a.savedAt > b.savedAt

\* Array.prototype.sort is stable: x, which stood before all of q, goes before the first
\* bill that does not sort before it
RECURSIVE InsertBill(_, _)
InsertBill(x, q) ==
    IF q = <<>> THEN <<x>>
    ELSE IF SortsBefore(Head(q), x) THEN <<Head(q)>> \o InsertBill(x, Tail(q))
         ELSE <<x>> \o q

\* lines 20-27
RECURSIVE sortBills(_)
sortBills(bills) ==
    IF bills = <<>> THEN <<>> ELSE InsertBill(Head(bills), sortBills(Tail(bills)))

\* lines 228-233: the effect that follows every change of config, mainMeter or meters
DraftSync(ls, cfg, mm, ms) ==
    [ls EXCEPT !.tmss_draft_config = Item(cfg),
               !.tmss_draft_main_meter = Item(mm),
               !.tmss_draft_meters = Item(ms)]

\* the state after the mount effect of lines 212-225 has loaded a stored draft and tariff
InitApp ==
    /\ config \in AppConfigs
    /\ mainMeter = DraftMainMeter
    /\ meters = DraftMeters
    /\ tariffConfig \in AppTariffs
    /\ history = <<>>
    /\ localStorage =
          [DraftSync(NoStorage, config, mainMeter, meters)
              EXCEPT !.tmss_tariff_config = Item(tariffConfig)]
    /\ now = Epoch
    /\ ops = 0
    /\ lastOp = "mount"
    /\ isSyncing = FALSE /\ calls = {}
    /\ calculationResult = NoResult /\ calculated = FALSE
    /\ units = Zero /\ slabs = <<>> /\ energyCost = Zero /\ evaluated = FALSE

\* one more handler runs
Handler(name) ==
    /\ ops < MaxOps
    /\ ops' = ops + 1
    /\ lastOp' = name
    /\ UNCHANGED <<calculationResult, calculated, isSyncing, calls>>
    /\ UNCHANGED evalVars

\* Dashboard.tsx:33-35
handleMainMeterChange(key, value) ==
    /\ Handler("handleMainMeterChange")
    /\ mainMeter' = [mainMeter EXCEPT ![key] = value]
    /\ localStorage' = DraftSync(localStorage, config, mainMeter', meters)
    /\ UNCHANGED <<config, meters, tariffConfig, history, now>>

\* Dashboard.tsx:37-39
handleMeterChange(id, key, value) ==
    /\ Handler("handleMeterChange")
    /\ meters' = [i \in 1..Len(meters) |->
                    IF meters[i].id = id THEN [meters[i] EXCEPT ![key] = value]
                    ELSE meters[i]]
    /\ localStorage' = DraftSync(localStorage, config, mainMeter, meters')
    /\ UNCHANGED <<config, mainMeter, tariffConfig, history, now>>

\* App.tsx:334, the Add Meter button
addMeter ==
    /\ Handler("addMeter")
    /\ Len(meters) < MaxMeters
    /\ now' = now + 1
    /\ meters' = Append(meters, [id |-> now', name |-> "", meterNo |-> Len(meters) + 1,
                                 previous |-> Zero, current |-> Zero])
    /\ localStorage' = DraftSync(localStorage, config, mainMeter, meters')
    /\ UNCHANGED <<config, mainMeter, tariffConfig, history>>

\* Dashboard.tsx:60-66, after DELETE was typed for the meter with this id
handleConfirmDelete(id) ==
    /\ Handler("handleConfirmDelete")
    /\ meters' = SelectSeq(meters, LAMBDA m : m.id # id)
    /\ localStorage' = DraftSync(localStorage, config, mainMeter, meters')
    /\ UNCHANGED <<config, mainMeter, tariffConfig, history, now>>

\* Dashboard.tsx:41-43
handleConfigChange(key, value) ==
    /\ Handler("handleConfigChange")
    /\ config' = [config EXCEPT ![key] = value]
    /\ localStorage' = DraftSync(localStorage, config', mainMeter, meters)
    /\ UNCHANGED <<mainMeter, meters, tariffConfig, history, now>>

\* lines 240-244
handleTariffSave(newConfig) ==
    /\ Handler("handleTariffSave")
    /\ tariffConfig' = newConfig
    /\ config' = IF config.includeBkashFee
                 THEN [config EXCEPT !.bkashFee = newConfig.bkashCharge]
                 ELSE config
    /\ localStorage' =
          [(IF config.includeBkashFee
            THEN DraftSync(localStorage, config', mainMeter, meters)
            ELSE localStorage)
              EXCEPT !.tmss_tariff_config = Item(newConfig)]
    /\ UNCHANGED <<mainMeter, meters, history, now>>
\* A plausible slip: the draft's config stored as it is, without the total of this bill.
updatedConfigAsIs(cfg, result) == cfg

\* line 247
updatedConfig(cfg, result) == [cfg EXCEPT !.totalBillPayable = result.totalCollection]

\* line 248
newRecord(t, cfg, mm, ms) ==
    [id |-> t, savedAt |-> t, config |-> cfg, mainMeter |-> mm, meters |-> ms]

\* lines 246-253
saveToHistory ==
    /\ Handler("saveToHistory")
    /\ now' = now + 1
    /\ LET result == calculateBillBreakdown(config, mainMeter, meters, tariffConfig)
           record == newRecord(now', updatedConfig(config, result), mainMeter, meters)
           updatedHistory == sortBills(<<record>> \o history)
       IN  /\ history' = updatedHistory
           /\ localStorage' = [localStorage EXCEPT !.tmss_bill_history = Item(updatedHistory)]
    /\ UNCHANGED <<config, mainMeter, meters, tariffConfig>>

\* lines 282-289, for the k-th bill of the history list
loadFromHistory(k, confirmed) ==
    /\ k \in 1..Len(history)
    /\ IF confirmed
       THEN /\ Handler("loadFromHistory")
            /\ config' = history[k].config
            /\ mainMeter' = history[k].mainMeter
            /\ meters' = history[k].meters
            /\ localStorage' = DraftSync(localStorage, config', mainMeter', meters')
       ELSE /\ Handler("loadFromHistory declined")
            /\ UNCHANGED <<config, mainMeter, meters, localStorage>>
    /\ UNCHANGED <<tariffConfig, history, now>>

\* A plausible slip: the delete removes every bill of the selected bill's date.
onDeleteWholeDate(id) ==
    /\ Handler("onDelete")
    /\ LET dates == {history[k].config.dateGenerated :
                        k \in {k \in 1..Len(history) : history[k].id = id}}
           h == SelectSeq(history, LAMBDA b : b.config.dateGenerated \notin dates)
       IN  /\ history' = h
           /\ localStorage' = [localStorage EXCEPT !.tmss_bill_history = Item(h)]
    /\ UNCHANGED <<config, mainMeter, meters, tariffConfig, now>>

\* line 298
onDelete(id) ==
    /\ Handler("onDelete")
    /\ LET h == SelectSeq(history, LAMBDA b : b.id # id)
       IN  /\ history' = h
           /\ localStorage' = [localStorage EXCEPT !.tmss_bill_history = Item(h)]
    /\ UNCHANGED <<config, mainMeter, meters, tariffConfig, now>>

\* A plausible slip: the new period starts from cleared current readings.
rollOverClearingCurrent(m) == [m EXCEPT !.previous = m.current, !.current = Zero]

\* lines 267-275: the update applied to the main meter and to every sub-meter
rollOver(m) == [m EXCEPT !.previous = m.current]

\* lines 255-280; today is the date the clock shows
handleNextMonth(confirmed, today) ==
    IF confirmed
    THEN /\ Handler("handleNextMonth")
         /\ config' = [config EXCEPT !.month = (config.month + 1) % 12,
                                     !.dateGenerated = today]
         /\ mainMeter' = rollOver(mainMeter)
         /\ meters' = [i \in 1..Len(meters) |-> rollOver(meters[i])]
         /\ localStorage' = DraftSync(localStorage, config', mainMeter', meters')
         /\ UNCHANGED <<tariffConfig, history, now>>
    ELSE /\ Handler("handleNextMonth declined")
         /\ UNCHANGED <<config, mainMeter, meters, tariffConfig, history, localStorage, now>>

NextApp ==
    \/ \E key \in {"previous", "current"}, value \in EditValues :
          handleMainMeterChange(key, value)
    \/ \E i \in 1..Len(meters), key \in {"previous", "current"}, value \in EditValues :
          handleMeterChange(meters[i].id, key, value)
    \/ addMeter
    \/ \E i \in 1..Len(meters) : handleConfirmDelete(meters[i].id)
    \/ \E key \in {"includeBkashFee", "includeLateFee"} : handleConfigChange(key, ~config[key])
    \/ \E value \in Dates : handleConfigChange("dateGenerated", value)
    \/ \E newConfig \in AppTariffs : handleTariffSave(newConfig)
    \/ saveToHistory
    \/ \E k \in 1..Len(history), confirmed \in BOOLEAN : loadFromHistory(k, confirmed)
    \/ \E k \in 1..Len(history) : onDelete(history[k].id)
    \/ \E confirmed \in BOOLEAN, today \in Dates : handleNextMonth(confirmed, today)

SpecApp == InitApp /\ [][NextApp]_vars

----------------------------------------------------------------------------
(* Cloud synchronisation: pushCloudData and pullCloudData are asynchronous; each call
   is in flight from its start until the continuation after its last await has run.
   The spreadsheet service is an external collaborator: what its reads return is an
   input of the continuation. *)

\* a bill as the cloud or the local storage holds it, saved at time t for the date d
StoredBill(t, d) ==
    [id |-> t, savedAt |-> t,
     config |-> [month |-> 11, dateGenerated |-> d, includeLateFee |-> FALSE,
                 includeBkashFee |-> FALSE, totalBillPayable |-> IntR(56),
                 bkashFee |-> Undefined],
     mainMeter |-> DraftMainMeter, meters |-> DraftMeters]

\* lists of bills in the order of their saving, oldest first: two dates, and one date
OlderFirst == <<StoredBill(1, 1), StoredBill(2, 2)>>
SameDate == <<StoredBill(3, 1), StoredBill(4, 1)>>

CloudDraft ==
    [updatedAt |-> 5,
     config |-> [month |-> 10, dateGenerated |-> 2, includeLateFee |-> TRUE,
                 includeBkashFee |-> FALSE, totalBillPayable |-> Zero,
                 bkashFee |-> Undefined],
     mainMeter |-> [DraftMainMeter EXCEPT !.current = IntR(3)],
     meters |-> <<DraftMeters[1]>>]

\* a settled read: fulfilled with what the cloud holds (NoItem: null), or rejected
Fulfilled(item) == [status |-> "fulfilled", value |-> item]
Rejected == [status |-> "rejected", value |-> NoItem]
DraftReads == {Rejected, Fulfilled(NoItem), Fulfilled(Item(CloudDraft))}
BillsReads ==
    {Rejected, Fulfilled(NoItem), Fulfilled(Item(OlderFirst)), Fulfilled(Item(SameDate))}
TariffReads == {Rejected, Fulfilled(NoItem), Fulfilled(Item(OneSlabTariff))}

\* lines 212-225, the mount effect, for a storage that holds no bills or bills in the
\* order in which an earlier pull stored them
InitSync ==
    /\ config = [month |-> 11, dateGenerated |-> 1, includeLateFee |-> FALSE,
                 includeBkashFee |-> FALSE, totalBillPayable |-> Zero,
                 bkashFee |-> Undefined]
    /\ mainMeter = DraftMainMeter
    /\ meters = DraftMeters
    /\ tariffConfig = TwoSlabTariff
    /\ \E savedHistory \in {NoItem, Item(OlderFirst), Item(SameDate)} :
          /\ history = IF savedHistory.present THEN sortBills(savedHistory.value) ELSE <<>>
          /\ localStorage =
                [DraftSync(NoStorage, config, mainMeter, meters)
                    EXCEPT !.tmss_tariff_config = Item(tariffConfig),
                           !.tmss_bill_history = savedHistory]
    /\ now = Epoch
    /\ ops = 0
    /\ lastOp = "mount"
    /\ isSyncing = FALSE /\ calls = {}
    /\ calculationResult = NoResult /\ calculated = FALSE
    /\ units = Zero /\ slabs = <<>> /\ energyCost = Zero /\ evaluated = FALSE

\* a click on one of the two buttons of lines 377-388: one more handler runs
SyncHandler(name) ==
    /\ ops < MaxOps
    /\ ops' = ops + 1
    /\ lastOp' = name
    /\ UNCHANGED <<calculationResult, calculated, now>>
    /\ UNCHANGED evalVars

\* the continuation of a call that is in flight runs
Continuation(name) ==
    /\ lastOp' = name
    /\ UNCHANGED <<calculationResult, calculated, now, ops>>
    /\ UNCHANGED evalVars

LocalData == <<config, mainMeter, meters, tariffConfig, history, localStorage>>

\* lines 153-161: up to the first await; without the service the cloud dialog opens
pushCloudData(ready) ==
    IF ~ready
    THEN /\ SyncHandler("pushCloudData not ready")
         /\ UNCHANGED <<isSyncing, calls>>
         /\ UNCHANGED LocalData
    ELSE /\ SyncHandler("pushCloudData")
         /\ isSyncing' = TRUE
         /\ calls' = calls \cup {[id |-> ops', kind |-> "push", awaiting |-> "saveDraft"]}
         /\ UNCHANGED LocalData

\* lines 161-170: the awaited save of the call c has settled; after saveDraft comes
\* saveTariff, then saveHistory, then the end of the call; a rejected save ends it
pushResumes(c, fulfilled) ==
    /\ c \in calls /\ c.kind = "push"
    /\ IF fulfilled /\ c.awaiting # "saveHistory"
       THEN /\ Continuation("pushCloudData continues")
            /\ calls' = (calls \ {c}) \cup
                  {[c EXCEPT !.awaiting = IF c.awaiting = "saveDraft" THEN "saveTariff"
                                          ELSE "saveHistory"]}
            /\ UNCHANGED isSyncing
       ELSE /\ Continuation(IF fulfilled THEN "pushCloudData settled"
                            ELSE "pushCloudData failed")
            /\ calls' = calls \ {c}
            /\ isSyncing' = FALSE
    /\ UNCHANGED LocalData

\* lines 173-185: up to the await of the three reads
pullCloudData(ready) ==
    IF ~ready
    THEN /\ SyncHandler("pullCloudData not ready")
         /\ UNCHANGED <<isSyncing, calls>>
         /\ UNCHANGED LocalData
    ELSE /\ SyncHandler("pullCloudData")
         /\ isSyncing' = TRUE
         /\ calls' = calls \cup {[id |-> ops', kind |-> "pull", awaiting |-> "reads"]}
         /\ UNCHANGED LocalData

\* lines 187-201: what the pull does with the three values it received
pullApplies(cloudDraft, cloudHistory, cloudTariff) ==
    /\ IF cloudDraft.present
       THEN /\ config' = cloudDraft.value.config
            /\ mainMeter' = cloudDraft.value.mainMeter
            /\ meters' = cloudDraft.value.meters
       ELSE UNCHANGED <<config, mainMeter, meters>>
    /\ history' = IF cloudHistory.present THEN sortBills(cloudHistory.value) ELSE history
    /\ tariffConfig' = IF cloudTariff.present THEN cloudTariff.value ELSE tariffConfig
    /\ localStorage' =
          [localStorage EXCEPT
              !.tmss_draft_config = IF cloudDraft.present THEN Item(config') ELSE @,
              !.tmss_draft_main_meter = IF cloudDraft.present THEN Item(mainMeter') ELSE @,
              !.tmss_draft_meters = IF cloudDraft.present THEN Item(meters') ELSE @,
              !.tmss_bill_history = IF cloudHistory.present THEN cloudHistory ELSE @,
              !.tmss_tariff_config = IF cloudTariff.present THEN cloudTariff ELSE @]

\* A plausible slip: the reads awaited one by one, each applied as it arrives, so that
\* a rejected read leaves the earlier ones applied.
pullResumesOneByOne(c, draft, bills, tariff) ==
    /\ c \in calls /\ c.kind = "pull"
    /\ calls' = calls \ {c}
    /\ isSyncing' = FALSE
    /\ IF draft.status = "fulfilled" /\ bills.status = "fulfilled"
          /\ tariff.status = "fulfilled"
       THEN /\ Continuation("pullCloudData settled")
            /\ pullApplies(draft.value, bills.value, tariff.value)
       ELSE /\ Continuation("pullCloudData failed")
            /\ pullApplies(IF draft.status = "fulfilled" THEN draft.value ELSE NoItem,
                           IF draft.status = "fulfilled" /\ bills.status = "fulfilled"
                           THEN bills.value ELSE NoItem,
                           NoItem)

\* lines 181-208: Promise.all of the three reads of the call c has settled, fulfilled
\* when all three are and rejected otherwise
pullResumes(c, draft, bills, tariff) ==
    /\ c \in calls /\ c.kind = "pull"
    /\ calls' = calls \ {c}
    /\ isSyncing' = FALSE
    /\ IF draft.status = "fulfilled" /\ bills.status = "fulfilled"
          /\ tariff.status = "fulfilled"
       THEN /\ Continuation("pullCloudData settled")
            /\ pullApplies(draft.value, bills.value, tariff.value)
       ELSE /\ Continuation("pullCloudData failed")
            /\ UNCHANGED LocalData

NextSync ==
    \/ \E value \in Dates : handleConfigChange("dateGenerated", value)
    \/ saveToHistory
    \/ \E k \in 1..Len(history) : onDelete(history[k].id)
    \/ \E ready \in BOOLEAN : pushCloudData(ready)
    \/ \E c \in calls, fulfilled \in BOOLEAN : pushResumes(c, fulfilled)
    \/ \E ready \in BOOLEAN : pullCloudData(ready)
    \/ \E c \in calls, draft \in DraftReads, bills \in BillsReads, tariff \in TariffReads :
          pullResumes(c, draft, bills, tariff)

SpecSync == InitSync /\ [][NextSync]_vars

----------------------------------------------------------------------------
(* Properties of the application *)

\* the state of AppContent is well-formed
TypeOKApp ==
    /\ ops \in 0..MaxOps
    /\ Len(meters) <= MaxMeters
    /\ Len(history) <= ops
    /\ now \in Epoch..(Epoch + ops)

\* the result the engine gives for the state's config, readings and tariff (line 291)
ResultOfState == calculateBillBreakdown(config, mainMeter, meters, tariffConfig)

\* the list q without its k-th element
RemoveAt(q, k) == SubSeq(q, 1, k - 1) \o SubSeq(q, k + 1, Len(q))

\* C18: whatever edits, tariff saves and saves came before, a saveToHistory step adds
\* exactly one record to the history; its config.totalBillPayable is the engine's
\* totalCollection for the config, readings and tariff of the moment, and its mainMeter
\* and meters are the current readings.
C18_SaveStoresEngineTotal ==
    [][lastOp' = "saveToHistory" =>
          /\ Len(history') = Len(history) + 1
          /\ \E k \in 1..Len(history') :
                /\ RemoveAt(history', k) = history
                /\ history'[k].config.totalBillPayable = ResultOfState.totalCollection
                /\ history'[k].config =
                      [config EXCEPT !.totalBillPayable = ResultOfState.totalCollection]
                /\ history'[k].mainMeter = mainMeter
                /\ history'[k].meters = meters]_vars

\* a bill saved after a reading was edited and another tariff was saved
C18_Witness ==
    /\ lastOp = "saveToHistory" /\ Len(history) = 1
    /\ meters # DraftMeters
    /\ localStorage.tmss_tariff_config.value = tariffConfig
    /\ localStorage.tmss_draft_meters.value = meters
    /\ history[1].meters = meters
    /\ history[1].config.totalBillPayable = ResultOfState.totalCollection
    /\ history[1].config.totalBillPayable # Zero

\* C19 as stated: once a history record has been loaded, the engine's totalCollection
\* for the loaded state equals the totalBillPayable stored in the record, whatever
\* happened between saving and loading.
C19_ReplayGivesStoredTotal ==
    lastOp = "loadFromHistory" =>
        ResultOfState.totalCollection = config.totalBillPayable

\* C20: a confirmed roll-over sets previous to current for the main meter and every
\* sub-meter, keeps every current reading, id and name and the number of meters, and
\* leaves a state of zero consumption: totalUnits = 0 and calculatedRate = 0.  A declined
\* one changes nothing.
C20_RollOver ==
    [][/\ lastOp' = "handleNextMonth" =>
             /\ mainMeter' = [mainMeter EXCEPT !.previous = mainMeter.current]
             /\ Len(meters') = Len(meters)
             /\ \A i \in 1..Len(meters) :
                   /\ meters'[i].previous = meters[i].current
                   /\ meters'[i].current = meters[i].current
                   /\ meters'[i].id = meters[i].id
                   /\ meters'[i].name = meters[i].name
             /\ LET after == calculateBillBreakdown(config', mainMeter', meters', tariffConfig')
                IN  /\ after.totalUnits = Zero
                    /\ after.calculatedRate = Zero
                    /\ \A i \in 1..Len(after.userCalculations) :
                          after.userCalculations[i].unitsUsed = Zero
                    /\ mainUnits(mainMeter') = Zero
       /\ lastOp' = "handleNextMonth declined" =>
             UNCHANGED <<config, mainMeter, meters, tariffConfig, history, localStorage, now>>
      ]_vars

\* rolled over with two sub-meters that had consumed
C20_Witness ==
    /\ lastOp = "handleNextMonth" /\ Len(meters) = 2
    /\ config.month = 0
    /\ mainMeter.previous = mainMeter.current /\ mainMeter.current = IntR(2)
    /\ \A i \in 1..Len(meters) :
          meters[i].previous = meters[i].current /\ RGt(meters[i].current, Zero)
    /\ ResultOfState.totalUnits = Zero

\* a roll-over was declined
C20_WitnessDeclined ==
    lastOp = "handleNextMonth declined" /\ mainMeter.previous # mainMeter.current

----------------------------------------------------------------------------
(* Properties of the engine's rows and of its pools *)

\* C21: the result has one row per sub-meter, in the order of the input list; a row
\* carries its meter's id, name, previous and current, unitsUsed = max(0, current -
\* previous), energyCost = unitsUsed * calculatedRate and totalPayable = energyCost +
\* fixedCost; totalUnits is the sum of the rows' unitsUsed.
C21_OneRowPerSubMeter ==
    calculated =>
        /\ Len(Rows) = Len(meters)
        /\ \A i \in 1..Len(meters) :
              /\ Rows[i].id = meters[i].id
              /\ Rows[i].name = meters[i].name
              /\ Rows[i].previous = meters[i].previous
              /\ Rows[i].current = meters[i].current
              /\ Rows[i].unitsUsed = ClampedDelta(meters[i])
              /\ Rows[i].energyCost =
                    RMul(Rows[i].unitsUsed, calculationResult.calculatedRate)
              /\ Rows[i].totalPayable = RAdd(Rows[i].energyCost, Rows[i].fixedCost)
        /\ calculationResult.totalUnits =
              SumSeq([i \in 1..Len(Rows) |-> Rows[i].unitsUsed])

\* two sub-meters with different consumption under a non-zero rate and a fixed share
C21_Witness ==
    /\ calculated /\ Len(meters) = 2 /\ Len(Rows) = 2
    /\ Rows[1].id = 1 /\ Rows[2].id = 2
    /\ Rows[1].unitsUsed # Rows[2].unitsUsed
    /\ RGt(Rows[1].energyCost, Zero)
    /\ RGt(Rows[1].fixedCost, Zero)
    /\ Rows[1].totalPayable = RAdd(Rows[1].energyCost, Rows[1].fixedCost)

\* the result for the same readings and tariff with both fee flags off
ResultWithoutFees ==
    calculateBillBreakdown([config EXCEPT !.includeLateFee = FALSE, !.includeBkashFee = FALSE],
                           mainMeter, meters, tariffConfig)

\* C22: with totalSubmeterUnits > 0, calculatedRate is (energyCostBase + vatDistributed)
\* / totalSubmeterUnits, a value fixed by the energy cost, the VAT rate and the units
\* alone; the rate and every energyCost are the same with the fee flags on as with them
\* off, whatever demandCharge, meterRent and bkashCharge are; a flag that is on adds
\* lateFee / n or bkashCharge / n to each fixedCost and the fee to totalCollection.
C22_RateIndependentOfFees ==
    calculated =>
        LET off == ResultWithoutFees
            n == Len(meters)
            late == calculationResult.lateFee
        IN  /\ RGt(calculationResult.totalUnits, Zero) =>
                  /\ calculationResult.calculatedRate =
                        RDiv(RAdd(EnergyCostBaseOfState, calculationResult.vatDistributed),
                             calculationResult.totalUnits)
                  /\ calculationResult.calculatedRate =
                        RDiv(RAdd(EnergyCostBaseOfState,
                                  RMul(EnergyCostBaseOfState, tariffConfig.vatRate)),
                             calculationResult.totalUnits)
            /\ calculationResult.calculatedRate = off.calculatedRate
            /\ calculationResult.totalUnits = off.totalUnits
            /\ calculationResult.vatDistributed = off.vatDistributed
            /\ \A i \in 1..n :
                  /\ Rows[i].energyCost = off.userCalculations[i].energyCost
                  /\ Rows[i].fixedCost =
                        RAdd(off.userCalculations[i].fixedCost,
                             RAdd(RDiv(late, IntR(n)), RDiv(BkashFeeOfState, IntR(n))))
            /\ late = (IF config.includeLateFee THEN calculationResult.vatTotal ELSE Zero)
            /\ calculationResult.totalCollection =
                  RAdd(off.totalCollection, RAdd(late, BkashFeeOfState))

\* both fees on and charged, two sub-meters that consumed
C22_Witness ==
    /\ calculated /\ config.includeLateFee /\ config.includeBkashFee
    /\ Len(meters) = 2 /\ RGt(calculationResult.totalUnits, Zero)
    /\ RGt(calculationResult.lateFee, Zero) /\ RGt(BkashFeeOfState, Zero)
    /\ RGt(calculationResult.calculatedRate, Zero)
    /\ RGt(tariffConfig.demandCharge, Zero)
    /\ Rows[1].fixedCost # ResultWithoutFees.userCalculations[1].fixedCost

----------------------------------------------------------------------------
(* Properties of the evaluator's accounting *)

BilledInSlabs == SlabUnits(slabs, 1, units, Zero)
BilledAtOverflow == OverflowUnits(units, slabs)

\* C23: for a non-empty slab list, its limits in any order, the quantities billed in
\* the slabs and the quantity billed at the overflow rate are all >= 0 and sum to the
\* units; billed at their rates they make up the cost returned.
C23_EveryUnitBilledOnce ==
    (evaluated /\ slabs # <<>>) =>
        /\ \A i \in 1..Len(BilledInSlabs) : RLe(Zero, BilledInSlabs[i])
        /\ RLe(Zero, BilledAtOverflow)
        /\ RAdd(SumSeq(BilledInSlabs), BilledAtOverflow) = units
        /\ Len(BilledInSlabs) <= Len(slabs)
        /\ energyCost =
              RAdd(SumSeq([i \in 1..Len(BilledInSlabs) |->
                              RMul(BilledInSlabs[i], slabs[i].rate)]),
                   RMul(BilledAtOverflow, slabs[Len(slabs)].rate))

\* limits out of order: a slab is passed over, a later one and the overflow are billed
C23_Witness ==
    /\ evaluated /\ Len(slabs) = 3
    /\ RLt(slabs[2].limit, slabs[1].limit)
    /\ Len(BilledInSlabs) = 3
    /\ RGt(BilledInSlabs[1], Zero) /\ BilledInSlabs[2] = Zero
    /\ RGt(BilledAtOverflow, Zero)

NonNegativeTariff(tc) ==
    /\ \A i \in 1..Len(tc.slabs) : RLe(Zero, tc.slabs[i].rate)
    /\ RLe(Zero, tc.vatRate) /\ RLe(Zero, tc.demandCharge)
    /\ RLe(Zero, tc.meterRent) /\ RLe(Zero, tc.bkashCharge)

NonNegativeResult(r) ==
    /\ RLe(Zero, r.vatFixed) /\ RLe(Zero, r.vatDistributed) /\ RLe(Zero, r.vatTotal)
    /\ RLe(Zero, r.lateFee) /\ RLe(Zero, r.calculatedRate) /\ RLe(Zero, r.totalUnits)
    /\ RLe(Zero, r.totalCollection)
    /\ \A i \in 1..Len(r.userCalculations) :
          /\ RLe(Zero, r.userCalculations[i].unitsUsed)
          /\ RLe(Zero, r.userCalculations[i].energyCost)
          /\ RLe(Zero, r.userCalculations[i].fixedCost)
          /\ RLe(Zero, r.userCalculations[i].totalPayable)

\* C24: under a tariff without a negative rate, VAT rate or charge, no number of the
\* result is negative, whatever the readings and the flags.
C24_NonNegativeResult ==
    (calculated /\ NonNegativeTariff(tariffConfig)) => NonNegativeResult(calculationResult)

\* VAT, both fees, a sub-meter running backwards next to one that consumed
C24_Witness ==
    /\ calculated /\ NonNegativeTariff(tariffConfig)
    /\ config.includeLateFee /\ config.includeBkashFee
    /\ RGt(calculationResult.vatDistributed, Zero)
    /\ Len(meters) = 2 /\ Backwards(meters[1]) /\ RGt(Rows[2].energyCost, Zero)

\* the state's config and readings as TrendsDashboard receives them in a bill
BillOfState == [config |-> config, mainMeter |-> mainMeter, meters |-> meters]

RoundedRows == [i \in 1..Len(Rows) |-> MathRound(Rows[i].totalPayable)]

\* |k - x| <= n / 2 for the integer k
WithinHalves(k, x, n) ==
    /\ RLe(RSub(IntR(k), x), Rat(n, 2))
    /\ RLe(RSub(x, IntR(k)), Rat(n, 2))

\* C25: with n >= 1 sub-meters and totalSubmeterUnits > 0, the sum of the users' bills
\* rounded as the Dashboard shows them, and TrendsDashboard's monthTotal for the same
\* bill and tariff, are both within n / 2 of totalCollection.
C25_RoundedSumNearTotal ==
    (calculated /\ Len(meters) >= 1 /\ RGt(calculationResult.totalUnits, Zero)) =>
        /\ WithinHalves(SumInts(RoundedRows), calculationResult.totalCollection, Len(meters))
        /\ WithinHalves(trendsMonth(BillOfState, tariffConfig).monthSum,
                        calculationResult.totalCollection, Len(meters))

\* two users whose bills are both rounded, so that the rounded sum misses the total
C25_Witness ==
    /\ calculated /\ Len(meters) = 2 /\ RGt(calculationResult.totalUnits, Zero)
    /\ IntR(RoundedRows[1]) # Rows[1].totalPayable
    /\ IntR(RoundedRows[2]) # Rows[2].totalPayable
    /\ IntR(SumInts(RoundedRows)) # calculationResult.totalCollection
    /\ trendsMonth(BillOfState, tariffConfig).monthSum = SumInts(RoundedRows)

----------------------------------------------------------------------------
(* TrendsDashboard against the engine *)

\* what the engine returns for a saved bill under the tariff tc
EngineOfBill(bill, tc) == calculateBillBreakdown(bill.config, bill.mainMeter, bill.meters, tc)

\* the last sub-meter of the bill that carries the name of the i-th
LastNamed(bill, i) ==
    CHOOSE j \in i..Len(bill.meters) :
        /\ bill.meters[j].name = bill.meters[i].name
        /\ \A k \in (j + 1)..Len(bill.meters) : bill.meters[k].name # bill.meters[i].name

TrendsAgrees(bill, tc) ==
    LET rows == EngineOfBill(bill, tc).userCalculations
        month == trendsMonth(bill, tc)
        dataPoint == chartDataPoint(bill, tc)
        rounded == [i \in 1..Len(rows) |-> MathRound(rows[i].totalPayable)]
    IN  /\ Len(month.roundedTotal) = Len(bill.meters)
        /\ month.roundedTotal = rounded
        /\ \A i \in 1..Len(bill.meters) :
              /\ month.units[i] = rows[i].unitsUsed
              /\ dataPoint[CostKey(bill.meters[i].name)] = rounded[LastNamed(bill, i)]
              /\ dataPoint[bill.meters[i].name] = rows[LastNamed(bill, i)].unitsUsed
        /\ dataPoint["monthTotal"] = SumInts(rounded)

\* C26: for every saved bill and every tariff, the cost TrendsDashboard computes for each
\* sub-meter is Math.round of the totalPayable that calculateBillBreakdown returns for
\* the bill's flags and readings under that tariff, and monthTotal is the sum of those
\* rounded values; the data point holds each cost under the sub-meter's name (for a name
\* that several sub-meters carry, the cost of the last of them). Saved bills never
\* change, so every bill of the history is compared when a save has just extended it.
C26_TrendsAgreesWithEngine ==
    lastOp = "saveToHistory" =>
        \A k \in 1..Len(history) : \A tc \in AppTariffs : TrendsAgrees(history[k], tc)

\* a saved bill whose main meter ran beyond the last slab and whose two sub-meters owe
\* different rounded amounts
C26_Witness ==
    lastOp = "saveToHistory" /\ \E k \in 1..Len(history) :
        LET bill == history[k]
            month == trendsMonth(bill, TwoSlabTariff)
        IN  /\ Len(bill.meters) = 2
            /\ RGt(RSub(bill.mainMeter.current, bill.mainMeter.previous), IntR(2))
            /\ month.roundedTotal[1] # month.roundedTotal[2]
            /\ IntR(month.roundedTotal[1]) #
                  EngineOfBill(bill, TwoSlabTariff).userCalculations[1].totalPayable

----------------------------------------------------------------------------
(* Properties of the history list and of the cloud synchronisation *)

\* the list q is ordered by config.dateGenerated descending, equal dates by savedAt
\* descending
OrderedNewestFirst(q) ==
    \A i, j \in 1..Len(q) :
        i < j =>
            \/ q[i].config.dateGenerated > q[j].config.dateGenerated
            \/ /\ q[i].config.dateGenerated = q[j].config.dateGenerated
               /\ q[i].savedAt >= q[j].savedAt

\* C27: after the initial load from local storage and any sequence of saveToHistory,
\* deletes from the history and pulls that succeeded, the in-memory history is ordered
\* by config.dateGenerated descending, records of one date by savedAt descending.
C27_HistoryNewestFirst == OrderedNewestFirst(history)

\* a pull has replaced the history by a list that the cloud held oldest first
C27_Witness ==
    /\ lastOp = "pullCloudData settled"
    /\ Len(history) = 2
    /\ localStorage.tmss_bill_history.present
    /\ ~OrderedNewestFirst(localStorage.tmss_bill_history.value)
    /\ history[1].config.dateGenerated = history[2].config.dateGenerated

\* a loaded history that a save has extended and a delete has shortened
C27_WitnessSaveDelete ==
    /\ lastOp = "onDelete"
    /\ Len(history) = 2
    /\ \E k \in 1..2 : history[k].savedAt > Epoch

C29_FailedPullChangesNothing ==
    [][lastOp' = "pullCloudData failed" => UNCHANGED LocalData]_vars

\* a pull has failed over a history that holds bills
C29_Witness ==
    /\ lastOp = "pullCloudData failed"
    /\ Len(history) = 2
    /\ ~isSyncing

\* C30: isSyncing is true whenever at least one pushCloudData or pullCloudData call is
\* in flight, and false when none is.
C30_SyncingWhileInFlight == isSyncing <=> (calls # {})

====
